---------------------------- MODULE Spec2Model ----------------------------
(***************************************************************************)
(* A model of the Carta portfolio viewer: the paginating API client        *)
(* (src/src/carta.py), the tabular data shaper (src/src/securities.py)     *)
(* and the Streamlit script that drives them (src/src/app.py).             *)
(*                                                                         *)
(* Three specifications share the variables:                               *)
(*   Spec     a harness that calls the client's methods directly,          *)
(*   FmtSpec  a harness that calls the formatters directly,                *)
(*   AppSpec  the script of app.py, run once per render of a session.      *)
(***************************************************************************)
EXTENDS Integers, Sequences, FiniteSets, TLC

VARIABLES
    access_token,   \* CartaAPI._access_token of the session's client
    call,           \* the paginated accessor call in progress (or the last one)
    exch,           \* the last exchange_code_for_token call of the harness
    fmt,            \* the last formatter call of the harness
    app,            \* the session of app.py: query params, position, what was shown
    client          \* the last create_carta_client call: its environment and outcome

vars == <<access_token, call, exch, fmt, app, client>>

-----------------------------------------------------------------------------
(* Python values.  None is written as Python prints it, so that an f-string *)
(* of None is "$" \o None = "$None".  ABSENT marks a key a dict lacks.      *)

None == "None"
ABSENT == "<absent>"
RAISE == "<raise>"

\* Python truthiness of an Optional[str]: None and "" are falsy.
Truthy(x) == x # None /\ x # "" /\ x # ABSENT

\* dict.get(key) on a field that is ABSENT when the dict lacks the key.
DictGet(v) == IF v = ABSENT THEN None ELSE v

-----------------------------------------------------------------------------
(* Bounds of the model.                                                     *)

\* pages a server answers within one accessor call
MaxPages == 3
\* records per input sequence of a formatter call
MaxLen == 2
\* follow-up pages (pages after the first of a call) a server answers
\* within one render of the app
MaxExtraPages == 1

-----------------------------------------------------------------------------
(* The API client: src/src/carta.py                                         *)

DefaultPageSize == 50
PageSizes == {DefaultPageSize, 2}

Accessors == {"list_portfolios", "list_portfolio_issuers",
              "get_portfolio_certificates", "list_option_grants",
              "list_restricted_stock_units", "list_restricted_stock_awards"}

\* the path each accessor requests
Endpoint(acc) ==
    CASE acc = "list_portfolios" -> "/v1alpha1/portfolios"
      [] acc = "list_portfolio_issuers" -> "/v1alpha1/portfolios/{p}/issuers"
      [] acc = "get_portfolio_certificates" -> "/v1alpha1/portfolios/{p}/issuers/{i}/certificates"
      [] acc = "list_option_grants" -> "/v1alpha1/portfolios/{p}/issuers/{i}/optionGrants"
      [] acc = "list_restricted_stock_units" -> "/v1alpha1/portfolios/{p}/issuers/{i}/restrictedStockUnits"
      [] acc = "list_restricted_stock_awards" -> "/v1alpha1/portfolios/{p}/issuers/{i}/restrictedStockAwards"

\* the key of the page body whose array each accessor accumulates
ItemsKey(acc) ==
    CASE acc = "list_portfolios" -> "portfolios"
      [] acc = "list_portfolio_issuers" -> "issuers"
      [] acc = "get_portfolio_certificates" -> "certificates"
      [] acc = "list_option_grants" -> "optionGrants"
      [] acc = "list_restricted_stock_units" -> "restrictedStockUnits"
      [] acc = "list_restricted_stock_awards" -> "restrictedStockAwards"

\* the two accessors that check the token themselves, before the loop
ChecksTokenInline(acc) ==
    acc \in {"list_restricted_stock_units", "list_restricted_stock_awards"}

\* Response.raise_for_status raises for a 4xx or 5xx status; Response.ok is
\* its negation.
RaisesForStatus(status) == status >= 400 /\ status < 600

GetHeadersUnchecked(token) ==
    [raised |-> FALSE, Authorization |-> "Bearer " \o token]

\* _get_headers: raises ValueError when the token is falsy.
GetHeaders(token) ==
    IF ~Truthy(token)
    THEN [raised |-> TRUE, Authorization |-> ""]
    ELSE [raised |-> FALSE, Authorization |-> "Bearer " \o token]

\* the inline check of list_restricted_stock_units / _awards
InlineHeaders(token) ==
    IF ~Truthy(token)
    THEN [raised |-> TRUE, Authorization |-> ""]
    ELSE [raised |-> FALSE, Authorization |-> "Bearer " \o token]

HeadersOf(acc, token) ==
    IF ChecksTokenInline(acc) THEN InlineHeaders(token) ELSE GetHeaders(token)

IdleCall ==
    [pc |-> "idle", acc |-> "list_portfolios", page_size |-> DefaultPageSize,
     all_items |-> <<>>, next_page_token |-> None,
     requests |-> <<>>, responses |-> <<>>,
     result |-> <<>>, error |-> "none"]

BuildParamsAlwaysToken(page_size, next_page_token) ==
    [pageSize |-> page_size, pageToken |-> next_page_token]

\* params = {"pageSize": page_size}, plus pageToken when the token is truthy
BuildParams(page_size, next_page_token) ==
    [pageSize |-> page_size,
     pageToken |-> IF Truthy(next_page_token) THEN next_page_token ELSE ABSENT]

\* One pass of the head of the `while True` loop, up to the blocking
\* requests.get: build the params, take the headers (which may raise), send.
SendRequest(c, token) ==
    LET h == HeadersOf(c.acc, token)
        p == BuildParams(c.page_size, c.next_page_token)
    IN  IF h.raised
        THEN [c EXCEPT !.pc = "raised", !.error = "ValueError"]
        ELSE [c EXCEPT !.pc = "waiting",
                       !.requests = Append(@, [url |-> Endpoint(c.acc),
                                               auth |-> h.Authorization,
                                               pageSize |-> p.pageSize,
                                               pageToken |-> p.pageToken])]

\* The accessor from its entry to its first requests.get.
StartCall(acc, page_size, token) ==
    LET c0 == [IdleCall EXCEPT !.acc = acc, !.page_size = page_size]
    IN  IF ChecksTokenInline(acc) /\ InlineHeaders(token).raised
        THEN [c0 EXCEPT !.pc = "raised", !.error = "ValueError"]
        ELSE SendRequest(c0, token)

ExtendResetOnMissing(all_items, acc, body) ==
    IF body.key = ItemsKey(acc) THEN all_items \o body.items ELSE <<>>

ExtendOverwrite(all_items, acc, body) ==
    IF body.key = ItemsKey(acc) THEN body.items ELSE all_items

\* if "<key>" in data: all_items.extend(data["<key>"])
Extend(all_items, acc, body) ==
    IF body.key = ItemsKey(acc) THEN all_items \o body.items ELSE all_items

OnErrorReturnPartial(c, kind) ==
    [c EXCEPT !.pc = "returned", !.result = c.all_items]

\* requests.get, raise_for_status or response.json() raised: nothing in the
\* accessor catches it, so the call ends with the exception.
OnError(c, kind) ==
    [c EXCEPT !.pc = "raised", !.error = kind]

\* The rest of one pass of the loop, from the return of requests.get to the
\* next requests.get (or to the return of the accessor).
StepCall(c, resp, token) ==
    LET c1 == [c EXCEPT !.responses = Append(@, resp)]
    IN  IF resp.net = "error" THEN OnError(c1, "transport")
        ELSE IF RaisesForStatus(resp.status) THEN OnError(c1, "http")
        ELSE IF ~resp.json THEN OnError(c1, "json")
        ELSE LET items == Extend(c1.all_items, c1.acc, resp.body)
                 tok == DictGet(resp.body.nextPageToken)
                 c2 == [c1 EXCEPT !.all_items = items, !.next_page_token = tok]
             IN  IF ~Truthy(tok)
                 THEN [c2 EXCEPT !.pc = "returned", !.result = items]
                 ELSE SendRequest(c2, token)

-----------------------------------------------------------------------------
(* The transport: what a server may answer to one resource request.         *)

Items == {"a", "b"}
PageArrays == {<<>>, <<"a">>, <<"a", "b">>}
PageTokens == {ABSENT, None, "", "t1", "t2"}
NoBody == [key |-> ABSENT, items |-> <<>>, nextPageToken |-> ABSENT]

Bodies(acc) ==
    [key : {ItemsKey(acc)}, items : PageArrays, nextPageToken : PageTokens]
    \cup [key : {ABSENT}, items : {<<>>}, nextPageToken : PageTokens]

Responses(acc) ==
    {[net |-> "error", status |-> 0, json |-> FALSE, body |-> NoBody]}
    \cup [net : {"response"}, status : {401, 500}, json : {FALSE}, body : {NoBody}]
    \cup [net : {"response"}, status : {200}, json : {FALSE}, body : {NoBody}]
    \cup [net : {"response"}, status : {200}, json : {TRUE}, body : Bodies(acc)]

Tokens == {None, "", "tok"}

-----------------------------------------------------------------------------
(* create_carta_client (carta.py 379-393) and the environment it reads.     *)

\* a variable of the environment is unset (ABSENT), empty or set
Envs ==
    [CARTA_CLIENT_ID : {ABSENT, "", "id"},
     CARTA_CLIENT_SECRET : {ABSENT, "", "secret"},
     CARTA_REDIRECT_URI : {ABSENT, "", "http://localhost:8501"}]

ValidEnv ==
    [CARTA_CLIENT_ID |-> "id", CARTA_CLIENT_SECRET |-> "secret",
     CARTA_REDIRECT_URI |-> "http://localhost:8501"]

\* os.getenv(name): None when the variable is unset
Getenv(v) == DictGet(v)

\* CartaAPI.__init__
CartaAPI(client_id, client_secret, redirect_uri) ==
    [client_id |-> client_id, client_secret |-> client_secret,
     redirect_uri |-> redirect_uri, access_token |-> None]

NoClient == [client_id |-> None, client_secret |-> None,
             redirect_uri |-> None, access_token |-> None]

IdleClient == [called |-> FALSE, env |-> ValidEnv, raised |-> FALSE, obj |-> NoClient]

create_carta_client_any(env) ==
    LET client_id == Getenv(env.CARTA_CLIENT_ID)
        client_secret == Getenv(env.CARTA_CLIENT_SECRET)
        redirect_uri == Getenv(env.CARTA_REDIRECT_URI)
    IN  IF ~(Truthy(client_id) \/ Truthy(client_secret) \/ Truthy(redirect_uri))
        THEN [called |-> TRUE, env |-> env, raised |-> TRUE, obj |-> NoClient]
        ELSE [called |-> TRUE, env |-> env, raised |-> FALSE,
              obj |-> CartaAPI(client_id, client_secret, redirect_uri)]

\* raise ValueError unless all three variables are truthy
create_carta_client(env) ==
    LET client_id == Getenv(env.CARTA_CLIENT_ID)
        client_secret == Getenv(env.CARTA_CLIENT_SECRET)
        redirect_uri == Getenv(env.CARTA_REDIRECT_URI)
    IN  IF ~(Truthy(client_id) /\ Truthy(client_secret) /\ Truthy(redirect_uri))
        THEN [called |-> TRUE, env |-> env, raised |-> TRUE, obj |-> NoClient]
        ELSE [called |-> TRUE, env |-> env, raised |-> FALSE,
              obj |-> CartaAPI(client_id, client_secret, redirect_uri)]

-----------------------------------------------------------------------------

(* exchange_code_for_token (carta.py 48-72) and what the token endpoint may *)
(* answer.                                                                  *)

TOKEN_URL == "https://login.playground.carta.team/o/access_token/"

Codes == {"c1", "c2"}
States == {"s1", "s2"}

\* the body of a token response: JSON (a mapping, with or without
\* access_token) or text that is no JSON
TokenBodies ==
    [json : {TRUE}, access_token : {ABSENT, None, "", "tok"}]
    \cup {[json |-> FALSE, access_token |-> ABSENT]}
NoTokenBody == [json |-> FALSE, access_token |-> ABSENT]

TokenStatuses == {200, 304, 400, 401, 500}

TokenResponses ==
    {[net |-> "error", status |-> 0, body |-> NoTokenBody]}
    \cup [net : {"response"}, status : TokenStatuses, body : TokenBodies]

ExchangeNoRaise(code, state, resp) ==
    [called |-> TRUE, code |-> code, state |-> state, response |-> resp,
     surfaced |-> <<>>,
     raised |-> IF resp.net = "error" THEN "transport"
                ELSE IF ~resp.body.json THEN "json" ELSE "none",
     result |-> resp.body]

\* POST the code to TOKEN_URL; st.error the status and the text of a response
\* that is not ok; raise_for_status; return response.json().
ExchangeCodeForToken(code, state, resp) ==
    LET base == [called |-> TRUE, code |-> code, state |-> state,
                 response |-> resp, surfaced |-> <<>>, raised |-> "none",
                 result |-> NoTokenBody]
    IN  IF resp.net = "error" THEN [base EXCEPT !.raised = "transport"]
        ELSE IF RaisesForStatus(resp.status)
        THEN [base EXCEPT
                !.surfaced = <<[label |-> "Token exchange failed",
                                status |-> resp.status, text |-> NoTokenBody],
                               [label |-> "Response",
                                status |-> resp.status, text |-> resp.body]>>,
                !.raised = "http"]
        ELSE IF ~resp.body.json THEN [base EXCEPT !.raised = "json"]
        ELSE [base EXCEPT !.result = resp.body]

-----------------------------------------------------------------------------
(* The data shaper: src/src/securities.py                                   *)
(*                                                                          *)
(* A raw record is a mapping.  A top-level scalar field is its value, None  *)
(* (JSON null) or ABSENT.  A {value} wrapper field is [w, value] and a      *)
(* {amount: {value}} field is [w, a, value], where w and a say whether the  *)
(* key is "absent", maps to None ("none") or maps to a mapping ("dict").    *)

Range(s) == {s[i] : i \in DOMAIN s}

CERTIFICATE_COLUMNS ==
    <<"Security Label", "Share Class", "Quantity", "Issue Date", "Price Per Share">>

OPTION_GRANT_COLUMNS ==
    <<"Grant Label", "Share Class", "Grant Date", "Expiration Date",
      "Exercise Price", "Total Shares", "Vested Shares", "Unvested Shares">>

RSU_COLUMNS ==
    <<"Grant Label", "Share Class", "Grant Date", "Total Shares",
      "Vested Shares", "Unvested Shares">>

RSA_COLUMNS ==
    <<"Grant Label", "Share Class", "Grant Date", "Total Shares",
      "Vested Shares", "Unvested Shares">>

ALL_SECURITIES_COLUMNS ==
    <<"Security Type", "Portfolio ID", "Issuer ID", "Security Label",
      "Share Class", "Quantity", "Issue Date", "Price Per Share", "Grant Date",
      "Expiration Date", "Exercise Price", "Total Shares", "Vested Shares",
      "Unvested Shares">>

\* rec.get(k, {}).get("value"): AttributeError when k maps to None
GetValue(f) ==
    CASE f.w = "absent" -> None
      [] f.w = "none" -> RAISE
      [] f.w = "dict" -> DictGet(f.value)

GetAmountValueNoDefault(f, default) ==
    CASE f.w = "absent" -> None
      [] f.w = "none" -> RAISE
      [] f.w = "dict" ->
            CASE f.a = "absent" -> None
              [] f.a = "none" -> RAISE
              [] f.a = "dict" -> DictGet(f.value)

\* rec.get(k, {}).get("amount", {}).get("value", default)
GetAmountValue(f, default) ==
    CASE f.w = "absent" -> default
      [] f.w = "none" -> RAISE
      [] f.w = "dict" ->
            CASE f.a = "absent" -> default
              [] f.a = "none" -> RAISE
              [] f.a = "dict" -> IF f.value = ABSENT THEN default ELSE f.value

\* f"${x}"
Dollar(x) == IF x = RAISE THEN RAISE ELSE "$" \o x

DataFrameFromKeys(data, cols) ==
    [raised |-> FALSE,
     columns |-> IF data = <<>> THEN <<>> ELSE cols,
     rows |-> [i \in DOMAIN data |->
                 [c \in Range(cols) |->
                    IF c \in DOMAIN data[i] THEN data[i][c] ELSE None]]]

\* pd.DataFrame(data, columns=cols): one row per dict, a cell per column
DataFrame(data, cols) ==
    [raised |-> FALSE,
     columns |-> cols,
     rows |-> [i \in DOMAIN data |->
                 [c \in Range(cols) |->
                    IF c \in DOMAIN data[i] THEN data[i][c] ELSE None]]]

Raised == [raised |-> TRUE, columns |-> <<>>, rows |-> <<>>]

\* an extraction of the row raised, so the formatter's loop did
RowRaises(row) == \E c \in DOMAIN row : row[c] = RAISE

Build(rows, cols) ==
    IF \E i \in DOMAIN rows : RowRaises(rows[i]) THEN Raised
    ELSE DataFrame(rows, cols)

CertificateRow(cert) ==
    [c \in Range(CERTIFICATE_COLUMNS) |->
        CASE c = "Security Label" -> DictGet(cert.securityLabel)
          [] c = "Share Class" -> DictGet(cert.shareClassName)
          [] c = "Quantity" -> GetValue(cert.quantity)
          [] c = "Issue Date" -> GetValue(cert.issueDate)
          [] c = "Price Per Share" -> Dollar(GetAmountValue(cert.pricePerShare, "0.00"))]

format_certificates_data(certificates) ==
    Build([i \in DOMAIN certificates |-> CertificateRow(certificates[i])],
          CERTIFICATE_COLUMNS)

OptionGrantRowSwapped(grant) ==
    [c \in Range(OPTION_GRANT_COLUMNS) |->
        CASE c = "Grant Label" -> DictGet(grant.grantLabel)
          [] c = "Share Class" -> DictGet(grant.shareClassName)
          [] c = "Grant Date" -> GetValue(grant.grantDate)
          [] c = "Expiration Date" -> GetValue(grant.expirationDate)
          [] c = "Exercise Price" -> Dollar(GetAmountValue(grant.exercisePrice, "0.00"))
          [] c = "Total Shares" -> GetValue(grant.totalShares)
          [] c = "Vested Shares" -> GetValue(grant.unvestedShares)
          [] c = "Unvested Shares" -> GetValue(grant.vestedShares)]

OptionGrantRow(grant) ==
    [c \in Range(OPTION_GRANT_COLUMNS) |->
        CASE c = "Grant Label" -> DictGet(grant.grantLabel)
          [] c = "Share Class" -> DictGet(grant.shareClassName)
          [] c = "Grant Date" -> GetValue(grant.grantDate)
          [] c = "Expiration Date" -> GetValue(grant.expirationDate)
          [] c = "Exercise Price" -> Dollar(GetAmountValue(grant.exercisePrice, "0.00"))
          [] c = "Total Shares" -> GetValue(grant.totalShares)
          [] c = "Vested Shares" -> GetValue(grant.vestedShares)
          [] c = "Unvested Shares" -> GetValue(grant.unvestedShares)]

format_option_grants_data(grants) ==
    Build([i \in DOMAIN grants |-> OptionGrantRow(grants[i])],
          OPTION_GRANT_COLUMNS)

RsuRowShortCircuit(rsu) ==
    [c \in Range(RSU_COLUMNS) |->
        CASE c = "Grant Label" -> DictGet(rsu.grantLabel)
          [] c = "Share Class" -> DictGet(rsu.shareClassName)
          [] c = "Grant Date" -> GetValue(rsu.grantDate)
          [] OTHER -> IF rsu.grantDate.w = "absent" THEN None
                      ELSE GetValue(rsu[CASE c = "Total Shares" -> "totalShares"
                                          [] c = "Vested Shares" -> "vestedShares"
                                          [] c = "Unvested Shares" -> "unvestedShares"])]

RsuRow(rsu) ==
    [c \in Range(RSU_COLUMNS) |->
        CASE c = "Grant Label" -> DictGet(rsu.grantLabel)
          [] c = "Share Class" -> DictGet(rsu.shareClassName)
          [] c = "Grant Date" -> GetValue(rsu.grantDate)
          [] c = "Total Shares" -> GetValue(rsu.totalShares)
          [] c = "Vested Shares" -> GetValue(rsu.vestedShares)
          [] c = "Unvested Shares" -> GetValue(rsu.unvestedShares)]

format_rsus_data(rsus) ==
    Build([i \in DOMAIN rsus |-> RsuRow(rsus[i])], RSU_COLUMNS)

RsaRow(rsa) ==
    [c \in Range(RSA_COLUMNS) |->
        CASE c = "Grant Label" -> DictGet(rsa.grantLabel)
          [] c = "Share Class" -> DictGet(rsa.shareClassName)
          [] c = "Grant Date" -> GetValue(rsa.grantDate)
          [] c = "Total Shares" -> GetValue(rsa.totalShares)
          [] c = "Vested Shares" -> GetValue(rsa.vestedShares)
          [] c = "Unvested Shares" -> GetValue(rsa.unvestedShares)]

format_rsas_data(rsas) ==
    Build([i \in DOMAIN rsas |-> RsaRow(rsas[i])], RSA_COLUMNS)

AllCertificateRowWithVested(cert, portfolio_id, issuer_id) ==
    [c \in Range(ALL_SECURITIES_COLUMNS) |->
        CASE c = "Security Type" -> "Certificate"
          [] c = "Portfolio ID" -> portfolio_id
          [] c = "Issuer ID" -> issuer_id
          [] c = "Security Label" -> DictGet(cert.securityLabel)
          [] c = "Share Class" -> DictGet(cert.shareClassName)
          [] c = "Quantity" -> GetValue(cert.quantity)
          [] c = "Issue Date" -> GetValue(cert.issueDate)
          [] c = "Price Per Share" -> GetAmountValue(cert.pricePerShare, None)
          [] c = "Total Shares" -> GetValue(cert.quantity)
          [] c = "Vested Shares" -> GetValue(cert.quantity)
          [] OTHER -> None]

\* the dict appended for one certificate (securities.py 188-208)
AllCertificateRow(cert, portfolio_id, issuer_id) ==
    [c \in Range(ALL_SECURITIES_COLUMNS) |->
        CASE c = "Security Type" -> "Certificate"
          [] c = "Portfolio ID" -> portfolio_id
          [] c = "Issuer ID" -> issuer_id
          [] c = "Security Label" -> DictGet(cert.securityLabel)
          [] c = "Share Class" -> DictGet(cert.shareClassName)
          [] c = "Quantity" -> GetValue(cert.quantity)
          [] c = "Issue Date" -> GetValue(cert.issueDate)
          [] c = "Price Per Share" -> GetAmountValue(cert.pricePerShare, None)
          [] c = "Grant Date" -> None
          [] c = "Expiration Date" -> None
          [] c = "Exercise Price" -> None
          [] c = "Total Shares" -> GetValue(cert.quantity)
          [] c = "Vested Shares" -> None
          [] c = "Unvested Shares" -> None]

\* the dict appended for one option grant (securities.py 211-231)
AllOptionGrantRow(grant, portfolio_id, issuer_id) ==
    [c \in Range(ALL_SECURITIES_COLUMNS) |->
        CASE c = "Security Type" -> "Option Grant"
          [] c = "Portfolio ID" -> portfolio_id
          [] c = "Issuer ID" -> issuer_id
          [] c = "Security Label" -> DictGet(grant.grantLabel)
          [] c = "Share Class" -> DictGet(grant.shareClassName)
          [] c = "Quantity" -> GetValue(grant.totalShares)
          [] c = "Issue Date" -> None
          [] c = "Price Per Share" -> None
          [] c = "Grant Date" -> GetValue(grant.grantDate)
          [] c = "Expiration Date" -> GetValue(grant.expirationDate)
          [] c = "Exercise Price" -> GetAmountValue(grant.exercisePrice, None)
          [] c = "Total Shares" -> GetValue(grant.totalShares)
          [] c = "Vested Shares" -> GetValue(grant.vestedShares)
          [] c = "Unvested Shares" -> GetValue(grant.unvestedShares)]

\* the dict appended for one RSU (securities.py 234-252)
AllRsuRow(rsu, portfolio_id, issuer_id) ==
    [c \in Range(ALL_SECURITIES_COLUMNS) |->
        CASE c = "Security Type" -> "RSU"
          [] c = "Portfolio ID" -> portfolio_id
          [] c = "Issuer ID" -> issuer_id
          [] c = "Security Label" -> DictGet(rsu.grantLabel)
          [] c = "Share Class" -> DictGet(rsu.shareClassName)
          [] c = "Quantity" -> GetValue(rsu.totalShares)
          [] c = "Issue Date" -> None
          [] c = "Price Per Share" -> None
          [] c = "Grant Date" -> GetValue(rsu.grantDate)
          [] c = "Expiration Date" -> None
          [] c = "Exercise Price" -> None
          [] c = "Total Shares" -> GetValue(rsu.totalShares)
          [] c = "Vested Shares" -> GetValue(rsu.vestedShares)
          [] c = "Unvested Shares" -> GetValue(rsu.unvestedShares)]

\* the dict appended for one RSA (securities.py 255-273)
AllRsaRow(rsa, portfolio_id, issuer_id) ==
    [c \in Range(ALL_SECURITIES_COLUMNS) |->
        CASE c = "Security Type" -> "RSA"
          [] c = "Portfolio ID" -> portfolio_id
          [] c = "Issuer ID" -> issuer_id
          [] c = "Security Label" -> DictGet(rsa.grantLabel)
          [] c = "Share Class" -> DictGet(rsa.shareClassName)
          [] c = "Quantity" -> GetValue(rsa.totalShares)
          [] c = "Issue Date" -> None
          [] c = "Price Per Share" -> None
          [] c = "Grant Date" -> GetValue(rsa.grantDate)
          [] c = "Expiration Date" -> None
          [] c = "Exercise Price" -> None
          [] c = "Total Shares" -> GetValue(rsa.totalShares)
          [] c = "Vested Shares" -> GetValue(rsa.vestedShares)
          [] c = "Unvested Shares" -> GetValue(rsa.unvestedShares)]

FormatCurrencyPlaceholder(x) == IF x # None THEN "$" \o x ELSE "$0.00"

\* df[col].apply(lambda x: f"${x}" if pd.notnull(x) else None)
FormatCurrency(x) == IF x # None THEN "$" \o x ELSE None

FormatCurrencyColumns(df) ==
    [df EXCEPT !.rows =
        [i \in DOMAIN df.rows |->
            [c \in DOMAIN df.rows[i] |->
                IF c \in {"Price Per Share", "Exercise Price"}
                THEN FormatCurrency(df.rows[i][c])
                ELSE df.rows[i][c]]]]

AllDataRsasFirst(certificates, option_grants, rsus, rsas, portfolio_id, issuer_id) ==
    [i \in DOMAIN rsas |-> AllRsaRow(rsas[i], portfolio_id, issuer_id)]
    \o [i \in DOMAIN certificates |->
            AllCertificateRow(certificates[i], portfolio_id, issuer_id)]
    \o [i \in DOMAIN option_grants |->
            AllOptionGrantRow(option_grants[i], portfolio_id, issuer_id)]
    \o [i \in DOMAIN rsus |-> AllRsuRow(rsus[i], portfolio_id, issuer_id)]

\* all_data after the four loops: certificates, option grants, RSUs, RSAs
AllData(certificates, option_grants, rsus, rsas, portfolio_id, issuer_id) ==
    [i \in DOMAIN certificates |->
            AllCertificateRow(certificates[i], portfolio_id, issuer_id)]
    \o [i \in DOMAIN option_grants |->
            AllOptionGrantRow(option_grants[i], portfolio_id, issuer_id)]
    \o [i \in DOMAIN rsus |-> AllRsuRow(rsus[i], portfolio_id, issuer_id)]
    \o [i \in DOMAIN rsas |-> AllRsaRow(rsas[i], portfolio_id, issuer_id)]

format_all_securities_data(certificates, option_grants, rsus, rsas, portfolio_id, issuer_id) ==
    LET all_data == AllData(certificates, option_grants, rsus, rsas,
                            portfolio_id, issuer_id)
        df == Build(all_data, ALL_SECURITIES_COLUMNS)
    IN  IF df.raised THEN df ELSE FormatCurrencyColumns(df)

-----------------------------------------------------------------------------
(* Raw records the formatters are given.                                    *)

WAbsent == [w |-> "absent", value |-> ABSENT]
WNone == [w |-> "none", value |-> ABSENT]
W(v) == [w |-> "dict", value |-> v]

AAbsent == [w |-> "absent", a |-> "absent", value |-> ABSENT]
ANone == [w |-> "none", a |-> "absent", value |-> ABSENT]
ANoAmount == [w |-> "dict", a |-> "absent", value |-> ABSENT]
ANoneAmount == [w |-> "dict", a |-> "none", value |-> ABSENT]
A(v) == [w |-> "dict", a |-> "dict", value |-> v]

\* every shape of a field whose full value is v
ScalarShapes(v) == {ABSENT, None, v}
WrapperShapes(v) == {WAbsent, WNone, W(ABSENT), W(None), W(v)}
AmountShapes(v) == {AAbsent, ANone, ANoAmount, ANoneAmount, A(ABSENT), A(None), A(v)}

\* the fixtures of test_securities.py
SampleCertificate ==
    [securityLabel |-> "CERT-123", shareClassName |-> "Common Stock",
     quantity |-> W("1000"), issueDate |-> W("2024-01-01"),
     pricePerShare |-> A("10.50")]

SampleOptionGrant ==
    [grantLabel |-> "OPT-456", shareClassName |-> "Common Stock",
     grantDate |-> W("2024-01-01"), expirationDate |-> W("2034-01-01"),
     exercisePrice |-> A("5.00"), totalShares |-> W("2000"),
     vestedShares |-> W("500"), unvestedShares |-> W("1500")]

SampleRsu ==
    [grantLabel |-> "RSU-789", shareClassName |-> "Common Stock",
     grantDate |-> W("2024-01-01"), totalShares |-> W("1000"),
     vestedShares |-> W("250"), unvestedShares |-> W("750")]

SampleRsa ==
    [grantLabel |-> "RSA-012", shareClassName |-> "Common Stock",
     grantDate |-> W("2024-01-01"), totalShares |-> W("1000"),
     vestedShares |-> W("250"), unvestedShares |-> W("750")]

\* records with the label only (test_format_all_securities_data_missing_fields)
MinimalCertificate ==
    [securityLabel |-> "CERT-124", shareClassName |-> ABSENT,
     quantity |-> WAbsent, issueDate |-> WAbsent, pricePerShare |-> AAbsent]

MinimalOptionGrant ==
    [grantLabel |-> "OPT-457", shareClassName |-> ABSENT,
     grantDate |-> WAbsent, expirationDate |-> WAbsent,
     exercisePrice |-> AAbsent, totalShares |-> WAbsent,
     vestedShares |-> WAbsent, unvestedShares |-> WAbsent]

MinimalRsu ==
    [grantLabel |-> "RSU-790", shareClassName |-> ABSENT,
     grantDate |-> WAbsent, totalShares |-> WAbsent,
     vestedShares |-> WAbsent, unvestedShares |-> WAbsent]

MinimalRsa ==
    [grantLabel |-> "RSA-013", shareClassName |-> ABSENT,
     grantDate |-> WAbsent, totalShares |-> WAbsent,
     vestedShares |-> WAbsent, unvestedShares |-> WAbsent]

\* the sample record with one field in each of its shapes
CertificateRecords ==
    {MinimalCertificate}
    \cup {[SampleCertificate EXCEPT !.securityLabel = x] : x \in ScalarShapes("CERT-123")}
    \cup {[SampleCertificate EXCEPT !.shareClassName = x] : x \in ScalarShapes("Common Stock")}
    \cup {[SampleCertificate EXCEPT !.quantity = x] : x \in WrapperShapes("1000")}
    \cup {[SampleCertificate EXCEPT !.issueDate = x] : x \in WrapperShapes("2024-01-01")}
    \cup {[SampleCertificate EXCEPT !.pricePerShare = x] : x \in AmountShapes("10.50")}

OptionGrantRecords ==
    {MinimalOptionGrant}
    \cup {[SampleOptionGrant EXCEPT !.grantLabel = x] : x \in ScalarShapes("OPT-456")}
    \cup {[SampleOptionGrant EXCEPT !.shareClassName = x] : x \in ScalarShapes("Common Stock")}
    \cup {[SampleOptionGrant EXCEPT !.grantDate = x] : x \in WrapperShapes("2024-01-01")}
    \cup {[SampleOptionGrant EXCEPT !.expirationDate = x] : x \in WrapperShapes("2034-01-01")}
    \cup {[SampleOptionGrant EXCEPT !.exercisePrice = x] : x \in AmountShapes("5.00")}
    \cup {[SampleOptionGrant EXCEPT !.totalShares = x] : x \in WrapperShapes("2000")}
    \cup {[SampleOptionGrant EXCEPT !.vestedShares = x] : x \in WrapperShapes("500")}
    \cup {[SampleOptionGrant EXCEPT !.unvestedShares = x] : x \in WrapperShapes("1500")}

GrantLikeRecords(sample, minimal) ==
    {minimal}
    \cup {[sample EXCEPT !.grantLabel = x] : x \in ScalarShapes(sample.grantLabel)}
    \cup {[sample EXCEPT !.shareClassName = x] : x \in ScalarShapes("Common Stock")}
    \cup {[sample EXCEPT !.grantDate = x] : x \in WrapperShapes("2024-01-01")}
    \cup {[sample EXCEPT !.totalShares = x] : x \in WrapperShapes("1000")}
    \cup {[sample EXCEPT !.vestedShares = x] : x \in WrapperShapes("250")}
    \cup {[sample EXCEPT !.unvestedShares = x] : x \in WrapperShapes("750")}

RsuRecords == GrantLikeRecords(SampleRsu, MinimalRsu)
RsaRecords == GrantLikeRecords(SampleRsa, MinimalRsa)

\* the sequences of up to n records that alternate between x and y
Alternating(x, y, n) ==
    {[i \in 1..k |-> IF i % 2 = 1 THEN p[1] ELSE p[2]] :
        k \in 0..n, p \in {<<x, y>>, <<y, x>>}}

\* arguments of a call of a per-type formatter: up to MaxLen sample and
\* minimal records, or one record in any shape, alone or beside a sample
PerTypeInputs(records, sample, minimal) ==
    Alternating(sample, minimal, MaxLen)
    \cup {<<r>> : r \in records}
    \cup {<<sample, r>> : r \in records}
    \cup {<<r, sample>> : r \in records}

PortfolioIds == {"PORT-123", "PORT-124"}
IssuerIds == {"ISS-456", "ISS-457"}

\* arguments of a call of the union formatter: sequences of up to MaxLen
\* sample and minimal records, or one record in any shape beside samples
AllSecuritiesInputs ==
    (Alternating(SampleCertificate, MinimalCertificate, MaxLen)
     \X Alternating(SampleOptionGrant, MinimalOptionGrant, MaxLen)
     \X Alternating(SampleRsu, MinimalRsu, MaxLen)
     \X Alternating(SampleRsa, MinimalRsa, MaxLen))
    \cup ({<<r>> : r \in CertificateRecords} \X {<<>>, <<SampleOptionGrant>>}
          \X {<<>>} \X {<<>>, <<SampleRsa>>})
    \cup ({<<>>, <<SampleCertificate>>} \X {<<r>> : r \in OptionGrantRecords}
          \X {<<>>, <<SampleRsu>>} \X {<<>>})
    \cup ({<<>>} \X {<<>>, <<SampleOptionGrant>>}
          \X {<<r>> : r \in RsuRecords} \X {<<>>, <<SampleRsa>>})
    \cup ({<<>>, <<SampleCertificate>>} \X {<<>>}
          \X {<<>>, <<SampleRsu>>} \X {<<r>> : r \in RsaRecords})

\* a formatter call: its arguments and what it returned
FmtCall(fn, certificates, option_grants, rsus, rsas, portfolio_id, issuer_id, out) ==
    [fn |-> fn, certificates |-> certificates, option_grants |-> option_grants,
     rsus |-> rsus, rsas |-> rsas, portfolio_id |-> portfolio_id,
     issuer_id |-> issuer_id, out |-> out]

IdleFmt == FmtCall("none", <<>>, <<>>, <<>>, <<>>, None, None, Raised)

-----------------------------------------------------------------------------
(* The script of src/src/app.py.  One session holds st.session_state (the   *)
(* client and its token) and st.query_params; the script runs once per      *)
(* render.                                                                  *)

NoParams == [code |-> ABSENT, state |-> ABSENT]

\* the session between two renders (locals of show_portfolio_data unset)
Session(pc, query_params, issued) ==
    [pc |-> pc, query_params |-> query_params, issued |-> issued,
     view |-> "none", auth_error |-> FALSE, fetched |-> FALSE, extra |-> 0,
     portfolio_id |-> None, issuer_id |-> None,
     certificates |-> <<>>, option_grants |-> <<>>, rsus |-> <<>>]

IdleApp == Session("off", NoParams, {})

\* the mappings behind the items of a page: "a" is a well-formed record,
\* "b" one that lacks its id (portfolio, issuer) or carries a null wrapper
PortfolioOf(item) ==
    [portfolioId |-> IF item = "a" THEN "PORT-123" ELSE ABSENT]

IssuerOf(item) ==
    [id |-> IF item = "a" THEN "ISS-456" ELSE ABSENT]

CertificateOf(item) ==
    IF item = "a" THEN SampleCertificate
    ELSE [SampleCertificate EXCEPT !.quantity = WNone]

OptionGrantOf(item) ==
    IF item = "a" THEN SampleOptionGrant
    ELSE [SampleOptionGrant EXCEPT !.totalShares = WNone]

RsuOf(item) ==
    IF item = "a" THEN SampleRsu ELSE [SampleRsu EXCEPT !.totalShares = WNone]

RsaOf(item) ==
    IF item = "a" THEN SampleRsa ELSE [SampleRsa EXCEPT !.totalShares = WNone]

\* lines 89-146: the four tabs (a formatter runs only for a non-empty list)
\* and the export table; TRUE when one of the formatters raises
DisplayRaises(certificates, option_grants, rsus, rsas, portfolio_id, issuer_id) ==
    LET cs == [i \in DOMAIN certificates |-> CertificateOf(certificates[i])]
        gs == [i \in DOMAIN option_grants |-> OptionGrantOf(option_grants[i])]
        us == [i \in DOMAIN rsus |-> RsuOf(rsus[i])]
        as == [i \in DOMAIN rsas |-> RsaOf(rsas[i])]
    IN  \/ cs # <<>> /\ format_certificates_data(cs).raised
        \/ gs # <<>> /\ format_option_grants_data(gs).raised
        \/ us # <<>> /\ format_rsus_data(us).raised
        \/ as # <<>> /\ format_rsas_data(as).raised
        \/ format_all_securities_data(cs, gs, us, as, portfolio_id, issuer_id).raised

KeepToken(token) == token

\* st.session_state.carta_client.access_token = None  (lines 151 and 156)
TokenAfterError(token) == None

\* what a render leaves: the token, the session, the last accessor call
Outcome(token, a, c) == [token |-> token, app |-> a, call |-> c]

\* either `except Exception` of show_portfolio_data: show the error and
\* clear the token; the function ends
FetchError(token, a, c) ==
    Outcome(TokenAfterError(token),
            [Session("idle", a.query_params, a.issued)
                EXCEPT !.view = "error", !.auth_error = a.auth_error,
                       !.fetched = a.fetched, !.extra = a.extra],
            c)

\* show_portfolio_data returns (a warning, or the tables were shown)
FetchEnd(token, a, c, view) ==
    Outcome(token,
            [Session("idle", a.query_params, a.issued)
                EXCEPT !.view = view, !.auth_error = a.auth_error,
                       !.fetched = a.fetched, !.extra = a.extra],
            c)

\* the script calls the next accessor with the default page size and blocks
\* in its first requests.get (or takes its exception)
FetchNext(token, a, c, acc) ==
    LET n == StartCall(acc, DefaultPageSize, token)
    IN  IF n.pc = "raised" THEN FetchError(token, a, n)
        ELSE Outcome(token, [a EXCEPT !.pc = "fetching", !.fetched = TRUE], n)

\* show_portfolio_data from the return of an accessor (call c, with its
\* result) to the next blocking request or to the end of the function;
\* pick is the index the user has selected in the selectbox
Continue(token, a, c, pick) ==
    CASE c.acc = "list_portfolios" ->
            IF c.result = <<>> THEN FetchEnd(token, a, c, "warning")
            ELSE LET selected == PortfolioOf(c.result[pick])
                 IN  IF selected.portfolioId = ABSENT THEN FetchError(token, a, c)
                     ELSE FetchNext(token,
                                    [a EXCEPT !.portfolio_id = selected.portfolioId],
                                    c, "list_portfolio_issuers")
      [] c.acc = "list_portfolio_issuers" ->
            IF c.result = <<>> THEN FetchEnd(token, a, c, "warning")
            ELSE LET selected == IssuerOf(c.result[pick])
                 IN  IF selected.id = ABSENT THEN FetchError(token, a, c)
                     ELSE FetchNext(token, [a EXCEPT !.issuer_id = selected.id],
                                    c, "get_portfolio_certificates")
      [] c.acc = "get_portfolio_certificates" ->
            FetchNext(token, [a EXCEPT !.certificates = c.result], c,
                      "list_option_grants")
      [] c.acc = "list_option_grants" ->
            FetchNext(token, [a EXCEPT !.option_grants = c.result], c,
                      "list_restricted_stock_units")
      [] c.acc = "list_restricted_stock_units" ->
            FetchNext(token, [a EXCEPT !.rsus = c.result], c,
                      "list_restricted_stock_awards")
      [] c.acc = "list_restricted_stock_awards" ->
            IF DisplayRaises(a.certificates, a.option_grants, a.rsus, c.result,
                             a.portfolio_id, a.issuer_id)
            THEN FetchError(token, a, c)
            ELSE FetchEnd(token, a, c, "data")

DispatchAlwaysFetch(token, a, state) ==
    FetchNext(token, a, IdleCall, "list_portfolios")

\* lines 180-206: the login link (with a newly generated state) when the
\* token is falsy, show_portfolio_data otherwise
Dispatch(token, a, state) ==
    IF ~Truthy(token)
    THEN Outcome(token,
                 [a EXCEPT !.pc = "idle", !.view = "login",
                           !.issued = @ \cup {state}],
                 IdleCall)
    ELSE FetchNext(token, a, IdleCall, "list_portfolios")

\* lines 160-178, an exchange e that returned: set the token from the
\* response, clear the query params and st.rerun(), which ends this run
CallbackSuccess(token, a, e) ==
    Outcome(DictGet(e.result.access_token),
            [a EXCEPT !.pc = "idle", !.view = "rerun", !.query_params = NoParams],
            IdleCall)

CallbackFailureClears(token, a, e) ==
    [token |-> None,
     app |-> [a EXCEPT !.auth_error = TRUE, !.query_params = NoParams]]

\* lines 177-178, an exchange that raised: show the error and go on
CallbackFailure(token, a, e) ==
    [token |-> token, app |-> [a EXCEPT !.auth_error = TRUE]]

\* what the pages of a render may be
AppPageArrays == {<<>>, <<"a">>, <<"b">>}
AppPageTokens == {ABSENT, "t1"}

AppResponses(acc) ==
    {[net |-> "error", status |-> 0, json |-> FALSE, body |-> NoBody]}
    \cup [net : {"response"}, status : {401}, json : {FALSE}, body : {NoBody}]
    \cup [net : {"response"}, status : {200}, json : {FALSE}, body : {NoBody}]
    \cup [net : {"response"}, status : {200}, json : {TRUE},
          body : [key : {ItemsKey(acc)}, items : AppPageArrays,
                  nextPageToken : AppPageTokens]
                 \cup [key : {ABSENT}, items : {<<>>},
                       nextPageToken : AppPageTokens]]

\* the query params a page load may carry
CallbackParams ==
    {NoParams} \cup [code : Codes, state : States \cup {ABSENT}]

-----------------------------------------------------------------------------
(* Spec: the client's methods called directly.                              *)

IdleExch ==
    [called |-> FALSE, code |-> "c1", state |-> None,
     response |-> [net |-> "error", status |-> 0, body |-> NoTokenBody],
     surfaced |-> <<>>, raised |-> "none", result |-> NoTokenBody]

Init ==
    /\ access_token = None
    /\ call = IdleCall
    /\ exch = IdleExch
    /\ fmt = IdleFmt
    /\ app = IdleApp
    /\ client = IdleClient

\* the access_token setter, used by the caller between calls
SetToken ==
    /\ call.pc = "idle" /\ ~exch.called /\ ~client.called
    /\ \E t \in Tokens : access_token' = t
    /\ UNCHANGED <<call, exch, fmt, app, client>>

\* the caller invokes one accessor
CallAccessor ==
    /\ call.pc = "idle" /\ ~exch.called /\ ~client.called
    /\ \E acc \in Accessors, ps \in PageSizes :
          call' = StartCall(acc, ps, access_token)
    /\ UNCHANGED <<access_token, exch, fmt, app, client>>

\* the blocking requests.get of the call in progress comes back
Respond ==
    /\ call.pc = "waiting"
    /\ Len(call.responses) < MaxPages
    /\ \E resp \in Responses(call.acc) :
          call' = StepCall(call, resp, access_token)
    /\ UNCHANGED <<access_token, exch, fmt, app, client>>

\* the caller has taken the result (or the exception) of the call
Finish ==
    /\ call.pc \in {"returned", "raised"}
    /\ call' = IdleCall
    /\ UNCHANGED <<access_token, exch, fmt, app, client>>

\* the caller exchanges a code (state defaults to None)
Exchange ==
    /\ call.pc = "idle" /\ ~exch.called /\ ~client.called
    /\ \E code \in Codes, state \in States \cup {None}, resp \in TokenResponses :
          exch' = ExchangeCodeForToken(code, state, resp)
    /\ UNCHANGED <<access_token, call, fmt, app, client>>

ExchangeDone ==
    /\ exch.called
    /\ exch' = IdleExch
    /\ UNCHANGED <<access_token, call, fmt, app, client>>

\* the caller creates a client from the environment
CreateClient ==
    /\ call.pc = "idle" /\ ~exch.called /\ ~client.called
    /\ \E env \in Envs : client' = create_carta_client(env)
    /\ UNCHANGED <<access_token, call, exch, fmt, app>>

CreateClientDone ==
    /\ client.called
    /\ client' = IdleClient
    /\ UNCHANGED <<access_token, call, exch, fmt, app>>

Next ==
    \/ SetToken \/ CallAccessor \/ Respond \/ Finish
    \/ Exchange \/ ExchangeDone
    \/ CreateClient \/ CreateClientDone

Spec == Init /\ [][Next]_vars

-----------------------------------------------------------------------------
(* Properties of the paginated accessors, checked under Spec.               *)

\* a response the accessor takes as a page: it arrived, raise_for_status
\* passed and its body parsed
IsPage(resp) ==
    resp.net = "response" /\ ~(resp.status >= 400) /\ resp.json

PageToken(resp) == resp.body.nextPageToken

\* the named array of a page, for the accessor acc (nothing when the body
\* lacks the key)
PageItems(acc, resp) ==
    IF resp.body.key = ItemsKey(acc) THEN resp.body.items ELSE <<>>

RECURSIVE ConcatPages(_, _)
ConcatPages(acc, rs) ==
    IF rs = <<>> THEN <<>>
    ELSE PageItems(acc, Head(rs)) \o ConcatPages(acc, Tail(rs))

\* N >= 1 pages, a non-empty nextPageToken on pages 1..N-1 and none on page N
CompleteRun(rs) ==
    /\ Len(rs) >= 1
    /\ \A i \in 1..Len(rs) : IsPage(rs[i])
    /\ \A i \in 1..(Len(rs) - 1) : Truthy(PageToken(rs[i]))
    /\ ~Truthy(PageToken(rs[Len(rs)]))

\* C1: with a token set, an accessor that was answered N >= 1 successful
\* pages, with a non-empty nextPageToken on pages 1..N-1 and none on page N,
\* returns exactly the concatenation of the pages' named arrays, in page
\* order and each page's order kept.
C1_Concatenation ==
    (call.pc # "idle" /\ Truthy(access_token) /\ CompleteRun(call.responses))
        => /\ call.pc = "returned"
           /\ call.result = ConcatPages(call.acc, call.responses)

C1_Witness ==
    /\ call.pc = "returned"
    /\ Len(call.responses) = 3
    /\ \A i \in 1..3 : PageItems(call.acc, call.responses[i]) # <<>>
    /\ PageItems(call.acc, call.responses[1]) # PageItems(call.acc, call.responses[2])
    /\ call.result = ConcatPages(call.acc, call.responses)

\* C2: once the server has returned a nextPageToken equal to one it returned
\* earlier in the same call, the accessor has stopped with a fatal protocol
\* error and has issued no request after that page.
C2_RepeatedTokenIsFatal ==
    \A i \in 1..Len(call.responses), j \in 1..Len(call.responses) :
        ( /\ i < j
          /\ IsPage(call.responses[i]) /\ IsPage(call.responses[j])
          /\ Truthy(PageToken(call.responses[i]))
          /\ PageToken(call.responses[i]) = PageToken(call.responses[j]) )
        => /\ call.pc = "raised"
           /\ call.error = "protocol"
           /\ Len(call.requests) <= j

\* C3: an accessor called while the token is None or empty fails with the
\* ValueError of the missing token and has sent no request; every request
\* ever sent carries the bearer token that was set.
C3_UnauthenticatedNoRequest ==
    /\ (call.pc # "idle" /\ ~Truthy(access_token))
          => /\ call.pc = "raised"
             /\ call.error = "ValueError"
             /\ call.requests = <<>>
    /\ \A i \in 1..Len(call.requests) :
          /\ Truthy(access_token)
          /\ call.requests[i].auth = "Bearer " \o access_token

C3_Witness ==
    /\ access_token = ""
    /\ call.acc = "list_option_grants"
    /\ call.pc = "raised" /\ call.error = "ValueError"
    /\ call.requests = <<>>

\* the exception a failed fetch raises
FailureOf(resp) ==
    IF resp.net = "error" THEN "transport"
    ELSE IF resp.status >= 400 THEN "http"
    ELSE IF ~resp.json THEN "json" ELSE "none"

\* C4: when the fetch of page k fails, the call ends with that error; page k
\* is the last one requested, and nothing is returned, whatever pages
\* 1..k-1 had accumulated.
C4_ErrorDiscardsPartial ==
    \A k \in 1..Len(call.responses) :
        FailureOf(call.responses[k]) # "none"
        => /\ call.pc = "raised"
           /\ call.error = FailureOf(call.responses[k])
           /\ k = Len(call.responses)
           /\ Len(call.requests) = k
           /\ call.result = <<>>

C4_Witness ==
    /\ call.pc = "raised"
    /\ Len(call.responses) = 3
    /\ FailureOf(call.responses[3]) = "http"
    /\ call.all_items # <<>>
    /\ call.result = <<>>

\* C8: every request carries pageSize = page_size; the first carries no
\* pageToken; each later one carries the nextPageToken of the response just
\* before it; a further request follows a page if and only if that page
\* carried a non-empty nextPageToken; one request per page, none repeated.
C8_PaginationProtocol ==
    LET rq == call.requests
        rs == call.responses
    IN  /\ \A i \in 1..Len(rq) : rq[i].pageSize = call.page_size
        /\ Len(rq) >= 1 => rq[1].pageToken = ABSENT
        /\ \A i \in 2..Len(rq) :
              /\ IsPage(rs[i-1])
              /\ Truthy(PageToken(rs[i-1]))
              /\ rq[i].pageToken = PageToken(rs[i-1])
        /\ Len(rq) = Len(rs) + (IF call.pc = "waiting" THEN 1 ELSE 0)
        /\ \A i \in 1..Len(rs) :
              (IsPage(rs[i]) /\ Truthy(PageToken(rs[i]))) => Len(rq) > i
        /\ \A i \in 1..Len(rq) : rq[i].url = Endpoint(call.acc)

C8_Witness ==
    /\ Len(call.requests) = 3
    /\ call.page_size = 2
    /\ call.requests[2].pageToken = "t1"
    /\ call.requests[3].pageToken = "t2"
    /\ call.pc = "returned"
    /\ PageToken(call.responses[3]) = ""

-----------------------------------------------------------------------------
(* FmtSpec: the formatters called directly.                                 *)

InitFmt ==
    /\ access_token = None
    /\ call = IdleCall
    /\ exch = IdleExch
    /\ fmt = IdleFmt
    /\ app = IdleApp
    /\ client = IdleClient

CallFormatAll ==
    /\ fmt.fn = "none"
    /\ \E in \in AllSecuritiesInputs, p \in PortfolioIds, i \in IssuerIds :
          fmt' = FmtCall("format_all_securities_data", in[1], in[2], in[3], in[4], p, i,
                         format_all_securities_data(in[1], in[2], in[3], in[4], p, i))
    /\ UNCHANGED <<access_token, call, exch, app, client>>

CallFormatCertificates ==
    /\ fmt.fn = "none"
    /\ \E certificates \in PerTypeInputs(CertificateRecords, SampleCertificate, MinimalCertificate) :
          fmt' = FmtCall("format_certificates_data", certificates, <<>>, <<>>, <<>>,
                         None, None, format_certificates_data(certificates))
    /\ UNCHANGED <<access_token, call, exch, app, client>>

CallFormatOptionGrants ==
    /\ fmt.fn = "none"
    /\ \E grants \in PerTypeInputs(OptionGrantRecords, SampleOptionGrant, MinimalOptionGrant) :
          fmt' = FmtCall("format_option_grants_data", <<>>, grants, <<>>, <<>>,
                         None, None, format_option_grants_data(grants))
    /\ UNCHANGED <<access_token, call, exch, app, client>>

CallFormatRsus ==
    /\ fmt.fn = "none"
    /\ \E rsus \in PerTypeInputs(RsuRecords, SampleRsu, MinimalRsu) :
          fmt' = FmtCall("format_rsus_data", <<>>, <<>>, rsus, <<>>,
                         None, None, format_rsus_data(rsus))
    /\ UNCHANGED <<access_token, call, exch, app, client>>

CallFormatRsas ==
    /\ fmt.fn = "none"
    /\ \E rsas \in PerTypeInputs(RsaRecords, SampleRsa, MinimalRsa) :
          fmt' = FmtCall("format_rsas_data", <<>>, <<>>, <<>>, rsas,
                         None, None, format_rsas_data(rsas))
    /\ UNCHANGED <<access_token, call, exch, app, client>>

\* the caller has taken the table (or the exception)
FmtReturn ==
    /\ fmt.fn # "none"
    /\ fmt' = IdleFmt
    /\ UNCHANGED <<access_token, call, exch, app, client>>

NextFmt ==
    \/ CallFormatAll \/ CallFormatCertificates \/ CallFormatOptionGrants
    \/ CallFormatRsus \/ CallFormatRsas \/ FmtReturn

FmtSpec == InitFmt /\ [][NextFmt]_vars

-----------------------------------------------------------------------------
(* Properties of the union formatter, checked under FmtSpec.                *)

AllReturned == fmt.fn = "format_all_securities_data" /\ ~fmt.out.raised

NCert == Len(fmt.certificates)
NGrant == Len(fmt.option_grants)
NRsu == Len(fmt.rsus)
NRsa == Len(fmt.rsas)

\* C9: the union formatter's table has c+g+u+a rows: the certificates, then
\* the option grants, then the RSUs, then the RSAs, each group in input
\* order (row k of a group carries the label of the group's k-th record),
\* each row tagged with its type and with the portfolio_id and issuer_id
\* arguments.
C9_UnionOrder ==
    AllReturned =>
        LET rows == fmt.out.rows
        IN  /\ Len(rows) = NCert + NGrant + NRsu + NRsa
            /\ \A k \in 1..Len(rows) :
                  /\ rows[k]["Portfolio ID"] = fmt.portfolio_id
                  /\ rows[k]["Issuer ID"] = fmt.issuer_id
            /\ \A k \in 1..NCert :
                  /\ rows[k]["Security Type"] = "Certificate"
                  /\ rows[k]["Security Label"] = DictGet(fmt.certificates[k].securityLabel)
            /\ \A k \in 1..NGrant :
                  /\ rows[NCert + k]["Security Type"] = "Option Grant"
                  /\ rows[NCert + k]["Security Label"] = DictGet(fmt.option_grants[k].grantLabel)
            /\ \A k \in 1..NRsu :
                  /\ rows[NCert + NGrant + k]["Security Type"] = "RSU"
                  /\ rows[NCert + NGrant + k]["Security Label"] = DictGet(fmt.rsus[k].grantLabel)
            /\ \A k \in 1..NRsa :
                  /\ rows[NCert + NGrant + NRsu + k]["Security Type"] = "RSA"
                  /\ rows[NCert + NGrant + NRsu + k]["Security Label"] = DictGet(fmt.rsas[k].grantLabel)

C9_Witness ==
    /\ AllReturned
    /\ NCert = 2 /\ NGrant = 1 /\ NRsu = 2 /\ NRsa = 2
    /\ fmt.certificates[1] # fmt.certificates[2]
    /\ fmt.rsus[1] # fmt.rsus[2]
    /\ fmt.rsas[1] # fmt.rsas[2]
    /\ Len(fmt.out.rows) = 7
    /\ fmt.portfolio_id = "PORT-124" /\ fmt.issuer_id = "ISS-456"

ContextColumns == {"Security Type", "Portfolio ID", "Issuer ID"}
CurrencyColumns == {"Price Per Share", "Exercise Price"}

\* the row the per-type formatter produces for the record behind row k of
\* the union table, and that formatter's columns
PerTypeTable(k) ==
    IF k <= NCert THEN format_certificates_data(<<fmt.certificates[k]>>)
    ELSE IF k <= NCert + NGrant
    THEN format_option_grants_data(<<fmt.option_grants[k - NCert]>>)
    ELSE IF k <= NCert + NGrant + NRsu
    THEN format_rsus_data(<<fmt.rsus[k - NCert - NGrant]>>)
    ELSE format_rsas_data(<<fmt.rsas[k - NCert - NGrant - NRsu]>>)

\* equal, but for a currency whose underlying value is absent (or null):
\* "$0.00" (or "$None") per type, null in the union
SameButAbsentCurrency(col, union, pertype) ==
    \/ union = pertype
    \/ col \in CurrencyColumns /\ union = None /\ pertype \in {"$0.00", "$None"}

\* C10 as stated: in every row of the union table each column outside the
\* row type's own per-type columns is null, and each per-type column is a
\* column of the union table with the per-type formatter's value (absent
\* currency apart).
C10_UnionMatchesPerType ==
    AllReturned =>
        \A k \in 1..Len(fmt.out.rows) :
            LET row == fmt.out.rows[k]
                per == PerTypeTable(k)
            IN  /\ ~per.raised
                /\ \A col \in (DOMAIN row \ ContextColumns) \ Range(per.columns) :
                      row[col] = None
                /\ \A col \in Range(per.columns) :
                      /\ col \in DOMAIN row
                      /\ SameButAbsentCurrency(col, row[col], per.rows[1][col])

\* the per-type column a union column shows for a row of the given type
\* ("-" when the union leaves the column null)
UnionSource(type, col) ==
    IF type = "Certificate"
    THEN CASE col \in {"Security Label", "Share Class", "Quantity",
                       "Issue Date", "Price Per Share"} -> col
           [] col = "Total Shares" -> "Quantity"
           [] OTHER -> "-"
    ELSE CASE col = "Security Label" -> "Grant Label"
           [] col = "Quantity" -> "Total Shares"
           [] col \in {"Share Class", "Grant Date", "Total Shares",
                       "Vested Shares", "Unvested Shares"} -> col
           [] col \in {"Expiration Date", "Exercise Price"} ->
                 IF type = "Option Grant" THEN col ELSE "-"
           [] OTHER -> "-"

\* C10, amended: a certificate row repeats its Quantity under Total Shares;
\* a grant, RSU or RSA row shows its Grant Label under Security Label and
\* its Total Shares under both Quantity and Total Shares; every other
\* column holds the per-type formatter's value of the same name when the
\* type has that column (absent or null currency apart: null in the union)
\* and null when it has not.
C10_UnionProjection ==
    AllReturned =>
        \A k \in 1..Len(fmt.out.rows) :
            LET row == fmt.out.rows[k]
                per == PerTypeTable(k)
            IN  /\ ~per.raised
                /\ \A col \in DOMAIN row \ ContextColumns :
                      LET src == UnionSource(row["Security Type"], col)
                      IN  IF src = "-" THEN row[col] = None
                          ELSE /\ src \in Range(per.columns)
                               /\ SameButAbsentCurrency(col, row[col], per.rows[1][src])

C10_Witness ==
    /\ AllReturned
    /\ fmt.certificates = <<MinimalCertificate>>
    /\ fmt.option_grants = <<SampleOptionGrant>>
    /\ fmt.rsus = <<SampleRsu>>
    /\ fmt.rsas = <<SampleRsa>>
    /\ fmt.out.rows[1]["Price Per Share"] = None
    /\ format_certificates_data(fmt.certificates).rows[1]["Price Per Share"] = "$0.00"
    /\ fmt.out.rows[2]["Exercise Price"] = "$5.00"
    /\ fmt.out.rows[2]["Security Label"] = "OPT-456"
    /\ fmt.out.rows[3]["Quantity"] = "1000"

-----------------------------------------------------------------------------
(* AppSpec: the sessions of the app.                                        *)

InitApp ==
    /\ access_token = None
    /\ call = IdleCall
    /\ exch = IdleExch
    /\ fmt = IdleFmt
    /\ app = Session("idle", NoParams, {})
    /\ client = create_carta_client(ValidEnv)

\* a page load: a new session with the query params of the URL, in which
\* lines 16-17 create the client (no token) or raise, which ends every run
\* of the session; the states issued so far stay issued
NewSession ==
    /\ app.pc = "idle"
    /\ \E q \in CallbackParams, env \in Envs :
          LET c == create_carta_client(env)
          IN  /\ client' = c
              /\ app' = IF c.raised
                        THEN [Session("idle", q, app.issued) EXCEPT !.view = "config_error"]
                        ELSE Session("idle", q, app.issued)
              /\ access_token' = c.obj.access_token
    /\ call' = IdleCall
    /\ exch' = IdleExch
    /\ UNCHANGED fmt

\* one run of the script, up to its end or to the first blocking request of
\* show_portfolio_data.  resp is the token endpoint's answer when the query
\* params carry a code, state the value get_auth_data draws.
Render ==
    /\ app.pc = "idle"
    /\ ~client.raised
    /\ LET a0 == Session("idle", app.query_params, app.issued)
           code == app.query_params.code
       IN  \E resp \in IF code # ABSENT THEN TokenResponses
                       ELSE {IdleExch.response} :
           \E state \in States :
              LET e == IF code # ABSENT
                       THEN ExchangeCodeForToken(
                                code, DictGet(app.query_params.state), resp)
                       ELSE IdleExch
                  out == IF e.called /\ e.raised = "none"
                         THEN CallbackSuccess(access_token, a0, e)
                         ELSE IF e.called
                         THEN LET cb == CallbackFailure(access_token, a0, e)
                              IN  Dispatch(cb.token, cb.app, state)
                         ELSE Dispatch(access_token, a0, state)
              IN  /\ exch' = e
                  /\ access_token' = out.token
                  /\ app' = out.app
                  /\ call' = out.call
    /\ UNCHANGED <<fmt, client>>

\* the blocking requests.get of the render comes back; the script goes on
\* to its next blocking request or to its end
AppRespond ==
    /\ app.pc = "fetching"
    /\ call.pc = "waiting"
    /\ call.responses = <<>> \/ app.extra <= MaxExtraPages
    /\ \E resp \in AppResponses(call.acc) :
          LET c == StepCall(call, resp, access_token)
          IN  \E pick \in 1..(IF c.pc = "returned" /\ c.result # <<>>
                                 /\ c.acc \in {"list_portfolios", "list_portfolio_issuers"}
                              THEN Len(c.result) ELSE 1) :
                 LET out == CASE c.pc = "waiting" ->
                                    Outcome(access_token,
                                            [app EXCEPT !.extra = @ + 1], c)
                              [] c.pc = "raised" -> FetchError(access_token, app, c)
                              [] c.pc = "returned" -> Continue(access_token, app, c, pick)
                 IN  /\ access_token' = out.token
                     /\ app' = out.app
                     /\ call' = out.call
    /\ UNCHANGED <<exch, fmt, client>>

NextApp == NewSession \/ Render \/ AppRespond

AppSpec == InitApp /\ [][NextApp]_vars

-----------------------------------------------------------------------------
(* Properties of the app, checked under AppSpec.                            *)

\* C5: the access token becomes set only in a render whose callback carried
\* a state parameter equal to a state the app generated for an
\* authorization URL it issued; a callback whose state is missing or
\* differs never leads to the token being set.
C5_StateChecked ==
    [][ (~Truthy(access_token) /\ Truthy(access_token'))
            => app.query_params.state \in app.issued ]_vars

\* C7: when an accessor call of show_portfolio_data raises, the render ends
\* with the error shown and the token reset to None; a render ends in the
\* error view only with the token unset; and the next render of the session
\* shows the login prompt without any resource request.
C7_FetchErrorClearsToken ==
    [][ /\ (app.pc = "fetching" /\ call'.pc = "raised")
            => /\ access_token' = None
               /\ app'.pc = "idle"
               /\ app'.view = "error"
        /\ (app.pc = "fetching" /\ app'.pc = "idle")
            => /\ app'.view \in {"error", "warning", "data"}
               /\ app'.view = "error" <=> access_token' = None
        /\ (app.view = "error" /\ Render)
            => /\ app'.view = "login"
               /\ app'.pc = "idle"
               /\ ~app'.fetched
               /\ call'.requests = <<>> ]_vars

C7_Witness ==
    /\ app.view = "error" /\ app.pc = "idle"
    /\ access_token = None
    /\ call.acc = "list_option_grants"
    /\ call.pc = "raised" /\ call.error = "http"
    /\ Len(call.responses) = 2
    /\ call.all_items # <<>>

-----------------------------------------------------------------------------
(* Properties of the per-type formatters, checked under FmtSpec.            *)

PerTypeFns ==
    {"format_certificates_data", "format_option_grants_data",
     "format_rsus_data", "format_rsas_data"}

\* the argument of the per-type call
PerTypeArg ==
    CASE fmt.fn = "format_certificates_data" -> fmt.certificates
      [] fmt.fn = "format_option_grants_data" -> fmt.option_grants
      [] fmt.fn = "format_rsus_data" -> fmt.rsus
      [] fmt.fn = "format_rsas_data" -> fmt.rsas
      [] OTHER -> <<>>

\* the fully populated record of each type, and the row documented for it
SampleOf(fn) ==
    CASE fn = "format_certificates_data" -> SampleCertificate
      [] fn = "format_option_grants_data" -> SampleOptionGrant
      [] fn = "format_rsus_data" -> SampleRsu
      [] fn = "format_rsas_data" -> SampleRsa

ExpectedSampleRow(fn) ==
    CASE fn = "format_certificates_data" ->
            [c \in Range(CERTIFICATE_COLUMNS) |->
                CASE c = "Security Label" -> "CERT-123"
                  [] c = "Share Class" -> "Common Stock"
                  [] c = "Quantity" -> "1000"
                  [] c = "Issue Date" -> "2024-01-01"
                  [] c = "Price Per Share" -> "$10.50"]
      [] fn = "format_option_grants_data" ->
            [c \in Range(OPTION_GRANT_COLUMNS) |->
                CASE c = "Grant Label" -> "OPT-456"
                  [] c = "Share Class" -> "Common Stock"
                  [] c = "Grant Date" -> "2024-01-01"
                  [] c = "Expiration Date" -> "2034-01-01"
                  [] c = "Exercise Price" -> "$5.00"
                  [] c = "Total Shares" -> "2000"
                  [] c = "Vested Shares" -> "500"
                  [] c = "Unvested Shares" -> "1500"]
      [] fn = "format_rsus_data" ->
            [c \in Range(RSU_COLUMNS) |->
                CASE c = "Grant Label" -> "RSU-789"
                  [] c = "Share Class" -> "Common Stock"
                  [] c = "Grant Date" -> "2024-01-01"
                  [] c = "Total Shares" -> "1000"
                  [] c = "Vested Shares" -> "250"
                  [] c = "Unvested Shares" -> "750"]
      [] fn = "format_rsas_data" ->
            [c \in Range(RSA_COLUMNS) |->
                CASE c = "Grant Label" -> "RSA-012"
                  [] c = "Share Class" -> "Common Stock"
                  [] c = "Grant Date" -> "2024-01-01"
                  [] c = "Total Shares" -> "1000"
                  [] c = "Vested Shares" -> "250"
                  [] c = "Unvested Shares" -> "750"]

\* the column a source field is shown in by the per-type formatters
ColumnOf(field) ==
    CASE field = "securityLabel" -> "Security Label"
      [] field = "grantLabel" -> "Grant Label"
      [] field = "shareClassName" -> "Share Class"
      [] field = "quantity" -> "Quantity"
      [] field = "issueDate" -> "Issue Date"
      [] field = "pricePerShare" -> "Price Per Share"
      [] field = "grantDate" -> "Grant Date"
      [] field = "expirationDate" -> "Expiration Date"
      [] field = "exercisePrice" -> "Exercise Price"
      [] field = "totalShares" -> "Total Shares"
      [] field = "vestedShares" -> "Vested Shares"
      [] field = "unvestedShares" -> "Unvested Shares"

ScalarFields == {"securityLabel", "grantLabel", "shareClassName"}
AmountFields == {"pricePerShare", "exercisePrice"}

\* the field's key, or a key nested in it, is absent
KeyAbsent(field, x) ==
    IF field \in ScalarFields THEN x = ABSENT
    ELSE IF field \in AmountFields
    THEN \/ x.w = "absent"
         \/ x.w = "dict" /\ x.a = "absent"
         \/ x.w = "dict" /\ x.a = "dict" /\ x.value = ABSENT
    ELSE \/ x.w = "absent"
         \/ x.w = "dict" /\ x.value = ABSENT

\* the field's key, or the amount key nested in it, maps to null
NullWrapper(field, x) ==
    IF field \in ScalarFields THEN FALSE
    ELSE IF field \in AmountFields
    THEN x.w = "none" \/ (x.w = "dict" /\ x.a = "none")
    ELSE x.w = "none"

HasNullWrapper(rec) == \E f \in DOMAIN rec : NullWrapper(f, rec[f])

\* C11: a per-type formatter given records with absent keys (and no null
\* wrapper) does not raise; in each row the non-currency column of a field
\* whose key (or nested key) is absent is null, and the column of every
\* field that is as in the fully populated record holds the value it holds
\* for that record, whatever the other fields of the record are.
C11_MissingFieldIndependent ==
    (fmt.fn \in PerTypeFns /\ \A k \in DOMAIN PerTypeArg : ~HasNullWrapper(PerTypeArg[k]))
    => /\ ~fmt.out.raised
       /\ Len(fmt.out.rows) = Len(PerTypeArg)
       /\ \A k \in DOMAIN PerTypeArg :
             \A f \in DOMAIN PerTypeArg[k] :
                LET x == PerTypeArg[k][f]
                    cell == fmt.out.rows[k][ColumnOf(f)]
                IN  /\ (KeyAbsent(f, x) /\ f \notin AmountFields) => cell = None
                    /\ x = SampleOf(fmt.fn)[f]
                          => cell = ExpectedSampleRow(fmt.fn)[ColumnOf(f)]

C11_Witness ==
    /\ fmt.fn = "format_rsus_data"
    /\ fmt.rsus = <<SampleRsu, [SampleRsu EXCEPT !.grantDate = WAbsent]>>
    /\ ~fmt.out.raised
    /\ fmt.out.rows[2]["Grant Date"] = None
    /\ fmt.out.rows[2]["Total Shares"] = "1000"
    /\ fmt.out.rows[2]["Grant Label"] = "RSU-789"

\* the amount field of a per-type call that has a currency column
CurrencyField ==
    IF fmt.fn = "format_certificates_data" THEN "pricePerShare" ELSE "exercisePrice"

\* the amount's value key is present and holds a value
AmountPresent(x) ==
    x.w = "dict" /\ x.a = "dict" /\ x.value # ABSENT /\ x.value # None

\* C12: in the tables of format_certificates_data (Price Per Share) and
\* format_option_grants_data (Exercise Price) the currency cell is "$"
\* followed by the amount's value when it is present and "$0.00" when the
\* wrapper key, the amount key or the value key is absent; such a record
\* does not make the formatter raise.
C12_PerTypeCurrency ==
    (fmt.fn \in {"format_certificates_data", "format_option_grants_data"})
    => /\ (\A k \in DOMAIN PerTypeArg : ~HasNullWrapper(PerTypeArg[k]))
             => ~fmt.out.raised
       /\ ~fmt.out.raised
             => \A k \in DOMAIN PerTypeArg :
                   LET x == PerTypeArg[k][CurrencyField]
                       cell == fmt.out.rows[k][ColumnOf(CurrencyField)]
                   IN  /\ AmountPresent(x) => cell = "$" \o x.value
                       /\ KeyAbsent(CurrencyField, x) => cell = "$0.00"

C12_Witness ==
    /\ fmt.fn = "format_option_grants_data"
    /\ fmt.option_grants =
          <<SampleOptionGrant, [SampleOptionGrant EXCEPT !.exercisePrice = ANoAmount]>>
    /\ ~fmt.out.raised
    /\ fmt.out.rows[1]["Exercise Price"] = "$5.00"
    /\ fmt.out.rows[2]["Exercise Price"] = "$0.00"

\* the record behind row k of the union table, as [type, rec]
UnionRecord(k) ==
    IF k <= NCert THEN [type |-> "Certificate", rec |-> fmt.certificates[k]]
    ELSE IF k <= NCert + NGrant
    THEN [type |-> "Option Grant", rec |-> fmt.option_grants[k - NCert]]
    ELSE IF k <= NCert + NGrant + NRsu
    THEN [type |-> "RSU", rec |-> fmt.rsus[k - NCert - NGrant]]
    ELSE [type |-> "RSA", rec |-> fmt.rsas[k - NCert - NGrant - NRsu]]

\* the amount field a currency column of the union shows for a row type
\* ("-" when the column does not apply to the type)
UnionCurrencyField(type, col) ==
    IF type = "Certificate" /\ col = "Price Per Share" THEN "pricePerShare"
    ELSE IF type = "Option Grant" /\ col = "Exercise Price" THEN "exercisePrice"
    ELSE "-"

\* C13: in the union table a Price Per Share or Exercise Price cell is null
\* when the column does not apply to the row's type or the underlying value
\* is absent, and "$" followed by the value when it is present; "$0.00" is
\* never shown for an absent value.
C13_UnionCurrency ==
    AllReturned =>
        \A k \in 1..Len(fmt.out.rows) : \A col \in CurrencyColumns :
            LET u == UnionRecord(k)
                f == UnionCurrencyField(u.type, col)
                cell == fmt.out.rows[k][col]
            IN  IF f = "-" THEN cell = None
                ELSE /\ KeyAbsent(f, u.rec[f]) => cell = None
                     /\ AmountPresent(u.rec[f]) => cell = "$" \o u.rec[f].value
                     /\ cell = "$0.00" => AmountPresent(u.rec[f])

C13_Witness ==
    /\ AllReturned
    /\ fmt.certificates = <<[SampleCertificate EXCEPT !.pricePerShare = A(ABSENT)]>>
    /\ fmt.option_grants = <<SampleOptionGrant>>
    /\ fmt.out.rows[1]["Price Per Share"] = None
    /\ fmt.out.rows[1]["Exercise Price"] = None
    /\ fmt.out.rows[2]["Exercise Price"] = "$5.00"
    /\ fmt.out.rows[2]["Price Per Share"] = None

\* the label field of the records of a per-type call
LabelField ==
    IF fmt.fn = "format_certificates_data" THEN "securityLabel" ELSE "grantLabel"

\* C14: a per-type formatter given n records returns n rows in input order
\* (row k carries the label of record k); the row of a fully populated
\* record holds, column by column, the documented source field: label and
\* share class from the top level, dates and share counts from the value of
\* their wrapper, the currency as "$" and the amount's value.
C14_FullRecordMapping ==
    (fmt.fn \in PerTypeFns)
    => /\ (\A k \in DOMAIN PerTypeArg : PerTypeArg[k] = SampleOf(fmt.fn))
             => ~fmt.out.raised
       /\ ~fmt.out.raised
             => /\ Len(fmt.out.rows) = Len(PerTypeArg)
                /\ \A k \in DOMAIN PerTypeArg :
                      /\ fmt.out.rows[k][ColumnOf(LabelField)]
                            = DictGet(PerTypeArg[k][LabelField])
                      /\ PerTypeArg[k] = SampleOf(fmt.fn)
                            => fmt.out.rows[k] = ExpectedSampleRow(fmt.fn)

C14_Witness ==
    /\ fmt.fn = "format_option_grants_data"
    /\ fmt.option_grants = <<MinimalOptionGrant, SampleOptionGrant>>
    /\ ~fmt.out.raised
    /\ Len(fmt.out.rows) = 2
    /\ fmt.out.rows[1]["Grant Label"] = "OPT-457"
    /\ fmt.out.rows[2] = ExpectedSampleRow("format_option_grants_data")

\* the documented columns of each formatter's table
DocumentedColumns(fn) ==
    CASE fn = "format_certificates_data" ->
            <<"Security Label", "Share Class", "Quantity", "Issue Date",
              "Price Per Share">>
      [] fn = "format_option_grants_data" ->
            <<"Grant Label", "Share Class", "Grant Date", "Expiration Date",
              "Exercise Price", "Total Shares", "Vested Shares",
              "Unvested Shares">>
      [] fn \in {"format_rsus_data", "format_rsas_data"} ->
            <<"Grant Label", "Share Class", "Grant Date", "Total Shares",
              "Vested Shares", "Unvested Shares">>
      [] fn = "format_all_securities_data" ->
            <<"Security Type", "Portfolio ID", "Issuer ID", "Security Label",
              "Share Class", "Quantity", "Issue Date", "Price Per Share",
              "Grant Date", "Expiration Date", "Exercise Price",
              "Total Shares", "Vested Shares", "Unvested Shares">>

EmptyInput ==
    fmt.certificates = <<>> /\ fmt.option_grants = <<>>
    /\ fmt.rsus = <<>> /\ fmt.rsas = <<>>

\* C15: a formatter given empty input returns zero rows under its
\* documented columns in documented order (the 14 columns of the union for
\* the union formatter), and every table a formatter returns has exactly
\* those columns, whatever the input.
C15_FixedColumns ==
    (fmt.fn # "none")
    => /\ EmptyInput => /\ ~fmt.out.raised
                        /\ fmt.out.rows = <<>>
       /\ ~fmt.out.raised
             => /\ fmt.out.columns = DocumentedColumns(fmt.fn)
                /\ \A k \in DOMAIN fmt.out.rows :
                      DOMAIN fmt.out.rows[k] = Range(DocumentedColumns(fmt.fn))

C15_Witness ==
    /\ fmt.fn = "format_all_securities_data"
    /\ EmptyInput
    /\ ~fmt.out.raised
    /\ fmt.out.rows = <<>>
    /\ Len(fmt.out.columns) = 14

\* the records of a formatter call, whatever the formatter
CallRecords ==
    [k \in 1..(NCert + NGrant + NRsu + NRsa) |-> UnionRecord(k).rec]

\* C17: a formatter given a record in which a wrapper key (or the amount key
\* inside it) is present with a null value does not raise: it returns a row
\* per record, and the column of that field is null.
C17_NullWrapperTotal ==
    (fmt.fn # "none" /\ \E k \in DOMAIN CallRecords : HasNullWrapper(CallRecords[k]))
    => /\ ~fmt.out.raised
       /\ Len(fmt.out.rows) = Len(CallRecords)
       /\ \A k \in DOMAIN CallRecords : \A f \in DOMAIN CallRecords[k] :
             (NullWrapper(f, CallRecords[k][f]) /\ f \notin AmountFields)
                => fmt.out.rows[k][ColumnOf(f)] = None

-----------------------------------------------------------------------------
(* Properties of client creation, checked under Spec.                       *)

\* the variable is unset or empty
Missing(v) == v = ABSENT \/ v = ""

\* C16: create_carta_client raises its configuration error when any of the
\* client id, the client secret or the redirect URI is unset or empty, and
\* constructs a client, holding the three values and no access token, only
\* when all three are present.
C16_ConfigRequired ==
    client.called
    => LET e == client.env
           missing == Missing(e.CARTA_CLIENT_ID) \/ Missing(e.CARTA_CLIENT_SECRET)
                      \/ Missing(e.CARTA_REDIRECT_URI)
       IN  /\ client.raised <=> missing
           /\ ~client.raised
                 => /\ client.obj.client_id = e.CARTA_CLIENT_ID
                    /\ client.obj.client_secret = e.CARTA_CLIENT_SECRET
                    /\ client.obj.redirect_uri = e.CARTA_REDIRECT_URI
                    /\ client.obj.access_token = None

C16_Witness ==
    /\ client.called
    /\ client.raised
    /\ client.env.CARTA_CLIENT_ID = "id"
    /\ client.env.CARTA_CLIENT_SECRET = ""
    /\ client.env.CARTA_REDIRECT_URI = "http://localhost:8501"

-----------------------------------------------------------------------------
(* Properties of the callback and the dispatch, checked under AppSpec.      *)

\* C18: a resource request is sent only in a render that found the token
\* set; a render that reaches the dispatch without a token shows the login
\* link, built with a newly generated state, and sends no resource request;
\* the token becomes set only in a render that handled a callback whose
\* token exchange did not raise, and is then that response's access_token.
C18_LoginGate ==
    [][ /\ (call'.requests # <<>> /\ call'.requests # call.requests)
            => /\ Truthy(access_token)
               /\ app'.fetched
        /\ (Render /\ ~Truthy(access_token) /\ app'.view # "rerun")
            => /\ app'.view = "login"
               /\ ~app'.fetched
               /\ call'.requests = <<>>
               /\ access_token' = access_token
               /\ \E state \in States : app'.issued = app.issued \cup {state}
        /\ (Render /\ Truthy(access_token))
            => app'.fetched /\ app'.view # "login"
        /\ (~Truthy(access_token) /\ Truthy(access_token'))
            => /\ app.query_params.code # ABSENT
               /\ exch'.called
               /\ exch'.raised = "none"
               /\ access_token' = exch'.result.access_token ]_vars

C18_Witness ==
    /\ app.view = "login"
    /\ app.pc = "idle"
    /\ ~Truthy(access_token)
    /\ ~exch.called
    /\ app.query_params = NoParams
    /\ app.issued = States
    /\ ~app.fetched
    /\ call.requests = <<>>

\* C19: a render whose query params carry a code exchanges that code; when
\* the exchange raises, the token and the query params are as before the
\* callback (so the next render exchanges the same code again); when it
\* returns, the token is the response's access_token and the query params
\* are cleared before the re-run, and a render without a code exchanges
\* nothing.
C19_CallbackFrame ==
    [][ Render =>
          IF app.query_params.code # ABSENT
          THEN /\ exch'.called
               /\ exch'.code = app.query_params.code
               /\ exch'.raised # "none"
                     => /\ access_token' = access_token
                        /\ app'.query_params = app.query_params
                        /\ app'.auth_error
               /\ exch'.raised = "none"
                     => /\ access_token' = DictGet(exch'.result.access_token)
                        /\ app'.query_params = NoParams
                        /\ app'.view = "rerun"
                        /\ ~app'.auth_error
          ELSE ~exch'.called /\ app'.query_params = app.query_params ]_vars

C19_Witness ==
    /\ exch.called /\ exch.raised = "http"
    /\ exch.code = "c2"
    /\ app.query_params.code = "c2"
    /\ app.auth_error
    /\ access_token = None
    /\ app.view = "login"

-----------------------------------------------------------------------------
(* Pages without the named array, checked under Spec.                       *)

\* a successful page whose body lacks the accessor's array key
LacksKey(resp) == IsPage(resp) /\ resp.body.key = ABSENT

\* C20: a successful page whose body lacks the named array adds no item and
\* neither ends nor fails the call: the items gathered before it are kept,
\* the next page is requested exactly when that page carries a non-empty
\* nextPageToken (the call returns otherwise), and a call that returns
\* returns the items of all the other pages, in order.
C20_MissingKeyPage ==
    LET rs == call.responses
        rq == call.requests
    IN  \A i \in 1..Len(rs) :
            LacksKey(rs[i])
            => /\ Truthy(PageToken(rs[i])) <=> Len(rq) > i
               /\ i = Len(rs)
                     => /\ call.pc = (IF Truthy(PageToken(rs[i]))
                                      THEN "waiting" ELSE "returned")
                        /\ call.error = "none"
                        /\ call.all_items = ConcatPages(call.acc, SubSeq(rs, 1, i - 1))
               /\ call.pc = "returned"
                     => call.result = ConcatPages(call.acc, SubSeq(rs, 1, i - 1))
                                      \o ConcatPages(call.acc, SubSeq(rs, i + 1, Len(rs)))

C20_Witness ==
    /\ call.pc = "returned"
    /\ call.acc = "list_restricted_stock_units"
    /\ Len(call.responses) = 3
    /\ PageItems(call.acc, call.responses[1]) = <<"a", "b">>
    /\ LacksKey(call.responses[2])
    /\ PageToken(call.responses[2]) = "t2"
    /\ PageItems(call.acc, call.responses[3]) = <<"a">>
    /\ call.result = <<"a", "b", "a">>

=============================================================================
